---------------------------- MODULE Spec2Model ----------------------------
(***************************************************************************)
(* A model of conceptnet5/graph.py: the URI codec, the node factory, the   *)
(* get-or-create operations, the assertion engine and delete_node of       *)
(* ConceptNetGraph over a Neo4j-like store of nodes and edges.             *)
(*                                                                         *)
(* Text.  A Python string is a sequence of tokens.  The punctuation the    *)
(* code inspects (space, tab, slash, underscore, the JSON brackets, comma, *)
(* quote and backslash) is one token per character; a run of letters the   *)
(* code never looks inside ("concept", "en", "a") is one token.            *)
(***************************************************************************)
EXTENDS Integers, Sequences, FiniteSets, TLC

SP == " "
TB == "\t"
SL == "/"
US == "_"
LB == "["
RB == "]"
CM == ","
QT == "\""
BS == "\\"

\* the characters unicode.strip() removes and the JSON decoder skips
Whitespace == {SP, TB}

(***************************************************************************)
(* Bounds of the model.                                                    *)
(***************************************************************************)
\* nodes ever created in one run (ids are never reused)
MaxNodes == 4
\* arguments of an assertion, conjuncts of a conjunction
MaxArgs == 2

--------------------------------------------------------------------------
(* Python string primitives on token sequences. *)

\* unicode.lstrip(): drop leading whitespace
lstrip(s) ==
  LET i == CHOOSE j \in 1..Len(s) + 1 :
             /\ j = Len(s) + 1 \/ s[j] \notin Whitespace
             /\ \A k \in 1..j - 1 : s[k] \in Whitespace
  IN  SubSeq(s, i, Len(s))

\* unicode.rstrip(): drop trailing whitespace
rstrip(s) ==
  LET n == CHOOSE j \in 0..Len(s) :
             /\ j = Len(s) \/ s[Len(s) - j] \notin Whitespace
             /\ \A k \in 1..j : s[Len(s) - k + 1] \in Whitespace
  IN  SubSeq(s, 1, Len(s) - n)

\* unicode.strip()
strip(s) == rstrip(lstrip(s))

\* unicode.replace(old, new) for a one-character old and a new of one
\* character or none
replace(s, old, new) ==
  IF new = <<>> THEN SelectSeq(s, LAMBDA ch : ch # old)
  ELSE [i \in 1..Len(s) |-> IF s[i] = old THEN new[1] ELSE s[i]]

\* unicode.count(ch)
count(s, ch) == Cardinality({i \in 1..Len(s) : s[i] = ch})

\* index of the first ch in s at or after position i, 0 when there is none
find(s, ch, i) ==
  LET j == CHOOSE j \in i..Len(s) + 1 :
             /\ j = Len(s) + 1 \/ s[j] = ch
             /\ \A k \in i..j - 1 : s[k] # ch
  IN  IF j > Len(s) THEN 0 ELSE j

RECURSIVE split(_, _, _)
\* unicode.split(sep, maxsplit); maxsplit = -1 splits at every sep
split(s, sep, maxsplit) ==
  LET i == find(s, sep, 1)
  IN  IF maxsplit = 0 \/ i = 0 THEN <<s>>
      ELSE <<SubSeq(s, 1, i - 1)>> \o
           split(SubSeq(s, i + 1, Len(s)), sep, maxsplit - 1)

RECURSIVE join(_, _)
\* sep.join(parts)
join(sep, parts) ==
  IF parts = <<>> THEN <<>>
  ELSE IF Len(parts) = 1 THEN parts[1]
  ELSE parts[1] \o sep \o join(sep, Tail(parts))

--------------------------------------------------------------------------
(* The URI codec. *)

RECURSIVE json_escape(_)
\* json.dumps of the characters of one string, ensure_ascii=False: quote and
\* backslash get a backslash, everything else is kept (the string is
\* escaped half by half)
json_escape(s) ==
  IF s = <<>> THEN <<>>
  ELSE IF Len(s) = 1
    THEN (IF s[1] \in {QT, BS} THEN <<BS, s[1]>> ELSE s)
  ELSE json_escape(SubSeq(s, 1, Len(s) \div 2))
       \o json_escape(SubSeq(s, Len(s) \div 2 + 1, Len(s)))

\* json.dumps(lst, ensure_ascii=False) of a list of strings, with the default
\* separator ", "
json_dumps(lst) ==
  <<LB>> \o
  join(<<CM, SP>>, [i \in 1..Len(lst) |-> <<QT>> \o json_escape(lst[i]) \o <<QT>>])
  \o <<RB>>

\* graph.py list_to_uri_piece: the JSON text with every space removed
list_to_uri_piece(lst) == replace(json_dumps(lst), SP, <<>>)

\* graph.py make_assertion_uri
make_assertion_uri(relation_uri, arg_uri_list) ==
  <<SL, "assertion", SL>> \o list_to_uri_piece(<<relation_uri>> \o arg_uri_list)

\* normalize_uri with the replace left out
strip_only(uri) == strip(uri)

\* graph.py normalize_uri
normalize_uri(uri) == replace(strip(uri), SP, <<US>>)


\* the first position at or after i that holds no whitespace
skip_ws(s, i) ==
  CHOOSE j \in i..Len(s) + 1 :
    /\ j = Len(s) + 1 \/ s[j] \notin Whitespace
    /\ \A k \in i..j - 1 : s[k] \in Whitespace

RECURSIVE scan_string(_, _, _)
\* the JSON decoder inside a string literal, i just after the opening quote:
\* [ok, val, next].  A backslash must be followed by a character it can
\* escape; of the model's tokens those are quote, backslash and slash
scan_string(s, i, acc) ==
  IF i > Len(s) THEN [ok |-> FALSE, val |-> <<>>, next |-> i]
  ELSE IF s[i] = QT THEN [ok |-> TRUE, val |-> acc, next |-> i + 1]
  ELSE IF s[i] = BS
    THEN IF i + 1 <= Len(s) /\ s[i + 1] \in {QT, BS, SL}
           THEN scan_string(s, i + 2, Append(acc, s[i + 1]))
           ELSE [ok |-> FALSE, val |-> <<>>, next |-> i]
  ELSE scan_string(s, i + 1, Append(acc, s[i]))

RECURSIVE parse_items(_, _, _)
\* the JSON decoder inside an array, expecting a string at i: [ok, val]
parse_items(s, i, acc) ==
  LET j == skip_ws(s, i)
  IN  IF j > Len(s) \/ s[j] # QT THEN [ok |-> FALSE, val |-> <<>>]
      ELSE LET r == scan_string(s, j + 1, <<>>)
               k == skip_ws(s, r.next)
           IN  IF ~r.ok \/ k > Len(s) THEN [ok |-> FALSE, val |-> <<>>]
               ELSE IF s[k] = CM THEN parse_items(s, k + 1, Append(acc, r.val))
               ELSE IF s[k] = RB /\ skip_ws(s, k + 1) > Len(s)
                 THEN [ok |-> TRUE, val |-> Append(acc, r.val)]
               ELSE [ok |-> FALSE, val |-> <<>>]

\* graph.py uri_piece_to_list: json.loads of an array of strings, [ok, val];
\* ok is FALSE where json.loads raises ValueError or the value is not a flat
\* array of strings (every caller then fails on it)
uri_piece_to_list(uri) ==
  LET j == skip_ws(uri, 1)
      k == skip_ws(uri, j + 1)
  IN  IF j > Len(uri) \/ uri[j] # LB \/ k > Len(uri)
        THEN [ok |-> FALSE, val |-> <<>>]
      ELSE IF uri[k] = RB
        THEN [ok |-> skip_ws(uri, k + 1) > Len(uri), val |-> <<>>]
      ELSE parse_items(uri, j + 1, <<>>)

\* the code points' order of the tokens (Python compares unicode strings
\* code point by code point); a word ranks by its first letter
TokenOrder ==
  <<TB, SP, QT, CM, SL, LB, BS, RB, US, "a", "assertion", "b", "concept",
    "conjunction", "d", "en", "f", "frame", "r", "relation", "s", "source",
    "t", "w", "web_concept", "x">>

rank(tok) == CHOOSE i \in 1..Len(TokenOrder) : TokenOrder[i] = tok

\* a <= b for unicode strings: decided at the first position they differ
str_le(a, b) ==
  LET m == IF Len(a) < Len(b) THEN Len(a) ELSE Len(b)
      i == CHOOSE j \in 1..m + 1 :
             /\ j = m + 1 \/ a[j] # b[j]
             /\ \A k \in 1..j - 1 : a[k] = b[k]
  IN  IF i > m THEN Len(a) <= Len(b) ELSE rank(a[i]) < rank(b[i])

\* list.sort() left out
sort_no_op(lst) == lst

RECURSIVE sort(_)
\* list.sort() of a list of strings (insertion into the sorted tail)
sort(lst) ==
  IF lst = <<>> THEN <<>>
  ELSE LET x == Head(lst)
           t == sort(Tail(lst))
           n == Cardinality({i \in 1..Len(t) : ~str_le(x, t[i])})
       IN  SubSeq(t, 1, n) \o <<x>> \o SubSeq(t, n + 1, Len(t))

--------------------------------------------------------------------------
(* The store: the Neo4j database behind self.graph.                        *)
(*   nodes  records [id, type, uri, name, language]; a property a node     *)
(*          type does not set is <<>>                                       *)
(*   edges  records [id, type, start, end, props]; props holds 'nodes',    *)
(*          the "<source id>-<target id>" key, and the caller's properties *)
(*   made   history: for each assertion node the relation and argument     *)
(*          nodes it was created with; no operation reads it               *)
(* An operation takes the store and returns [g, val, err]: the store it    *)
(* leaves, its value and the exception it raised ("" when it returned).    *)

VARIABLES graph, last, freed, callers, bulk, pure

vars == <<graph, last, freed, callers, bulk, pure>>

\* properties = {}
NoProps == [k \in {} |-> 0]

EmptyGraph ==
  [nodes |-> {}, edges |-> {}, nextNode |-> 1, nextEdge |-> 1, made |-> NoProps]

Return(g, v) == [g |-> g, val |-> v, err |-> ""]
Raise(g, e) == [g |-> g, val |-> 0, err |-> e]

\* the statements after a call run when it returned; its exception leaves the
\* method at once, with the store as the call left it
Then(r, K(_)) == IF r.err # "" THEN Raise(r.g, r.err) ELSE K(r)

\* how a caller names a node: a Node object, a URI string or an integer id
ByRef(id) == [kind |-> "node", id |-> id, uri |-> <<>>]
ByURI(uri) == [kind |-> "uri", id |-> 0, uri |-> uri]
ById(id) == [kind |-> "id", id |-> id, uri |-> <<>>]

NodeIds(g) == {n.id : n \in g.nodes}
NodeById(g, id) == CHOOSE n \in g.nodes : n.id = id

\* node.relationships() that lists no edge
relationships_none(g, id) == {}

\* node.relationships.outgoing() / incoming() / relationships()
outgoing(g, id) == {e \in g.edges : e.start = id}
incoming(g, id) == {e \in g.edges : e.end = id}
relationships(g, id) == {e \in g.edges : e.start = id \/ e.end = id}

\* graph.py _create_node: self.graph.node(**properties)
_create_node(g, type, uri, name, language) ==
  Return([g EXCEPT !.nodes = @ \cup {[id |-> g.nextNode, type |-> type,
                                      uri |-> uri, name |-> name,
                                      language |-> language]},
                   !.nextNode = @ + 1],
         g.nextNode)

\* self._node_index.query('uri', lucene_escape(uri)): the nodes whose uri
\* property is exactly this string
node_index_query(g, uri) == {n \in g.nodes : n.uri = uri}

\* get_node with results[0] returned whenever there is a result
get_node_first(g, uri) ==
  IF node_index_query(g, normalize_uri(uri)) = {} THEN Return(g, 0)
  ELSE Return(g, (CHOOSE n \in node_index_query(g, normalize_uri(uri)) : TRUE).id)

\* graph.py get_node
get_node(g, uri) ==
  LET results == node_index_query(g, normalize_uri(uri))
  IN  IF Cardinality(results) = 1 THEN Return(g, (CHOOSE n \in results : TRUE).id)
      ELSE IF results = {} THEN Return(g, 0)
      ELSE Raise(g, "AssertionError")

\* graph.py get_node_by_id: self.graph.nodes[_id]
get_node_by_id(g, id) ==
  IF id \in NodeIds(g) THEN Return(g, id) ELSE Raise(g, "NotFoundError")

\* source.relationships.create(_type, target, **properties) and the edge's
\* 'nodes' key, '%d-%d' % (source.id, target.id)
create_relationship(g, type, source, target, properties) ==
  Return([g EXCEPT !.edges = @ \cup {[id |-> g.nextEdge, type |-> type,
                                      start |-> source, end |-> target,
                                      props |-> properties @@
                                                [nodes |-> <<source, target>>]]},
                   !.nextEdge = @ + 1],
         g.nextEdge)

RECURSIVE create_arg_edges(_, _, _, _)
\* the loop of _create_assertion_w_components (i counts from 1 here):
\* self._create_edge("arg", assertion, args[i], {'position': i+1}), the ends
\* being Node objects, which _create_edge takes as they are
create_arg_edges(g, assertion, args, i) ==
  IF i > Len(args) THEN g
  ELSE create_arg_edges(
         create_relationship(g, "arg", assertion, args[i], [position |-> i]).g,
         assertion, args, i + 1)

\* graph.py _create_assertion_w_components, relation and args being nodes
_create_assertion_w_components(g, uri, relation, args) ==
  Then(_create_node(g, "assertion", uri, <<>>, <<>>), LAMBDA a :
    Return([create_arg_edges(
              create_relationship(a.g, "relation", a.val, relation, NoProps).g,
              a.val, args, 1)
              EXCEPT !.made = @ @@ (a.val :> <<relation>> \o args)],
           a.val))

\* language, name = rest.split('/') of _create_concept_node and
\* _create_frame_node: two parts, or ValueError
language_name(g, type, uri, parts) ==
  IF Len(parts) # 2 THEN Raise(g, "ValueError")
  ELSE _create_node(g, type, uri, parts[2], parts[1])

\* graph.py _create_concept_node
_create_concept_node(g, uri, rest) ==
  language_name(g, "concept", uri, split(rest, SL, -1))

\* graph.py _create_frame_node
_create_frame_node(g, uri, rest) ==
  language_name(g, "frame", uri, split(rest, SL, -1))

\* graph.py _create_relation_node
_create_relation_node(g, uri, rest) == _create_node(g, "relation", uri, rest, <<>>)

\* rest.split('/')[-1]
last_part(parts) == parts[Len(parts)]

\* graph.py _create_source_node
_create_source_node(g, uri, rest) ==
  _create_node(g, "source", uri, last_part(split(rest, SL, -1)), <<>>)

\* graph.py _create_web_concept_node: the uri is stored as it is given
_create_web_concept_node(g, uri) == _create_node(g, "web_concept", uri, <<>>, <<>>)

RECURSIVE get_or_create_node(_, _)
RECURSIVE _create_node_by_type(_, _)
RECURSIVE _create_assertion_node(_, _, _)
RECURSIVE create_arg_nodes(_, _, _)

\* the loop of _create_assertion_node over arg_uris; val is the list of nodes
create_arg_nodes(g, arg_uris, acc) ==
  IF arg_uris = <<>> THEN Return(g, acc)
  ELSE Then(get_or_create_node(g, Head(arg_uris)), LAMBDA r :
         create_arg_nodes(r.g, Tail(arg_uris), Append(acc, r.val)))

\* _create_assertion_node once uri_piece_to_list(rest) is read
assertion_from_parts(g, uri, uri_parts) ==
  IF ~uri_parts.ok THEN Raise(g, "ValueError")
  ELSE IF uri_parts.val = <<>> THEN Raise(g, "IndexError")
  ELSE Then(get_or_create_node(g, uri_parts.val[1]), LAMBDA rel :
         Then(create_arg_nodes(rel.g, Tail(uri_parts.val), <<>>), LAMBDA args :
           _create_assertion_w_components(args.g, uri, rel.val, args.val)))

\* graph.py _create_assertion_node
_create_assertion_node(g, uri, rest) ==
  assertion_from_parts(g, uri, uri_piece_to_list(rest))

\* method = getattr(self, '_create_%s_node' % _type); method(uri, rest,
\* properties).  getattr raises AttributeError for a type with no such method,
\* and the web concept builder takes (uri, properties), not (uri, rest,
\* properties): TypeError
create_method(g, uri, _type, rest) ==
  CASE _type = <<"assertion">> -> _create_assertion_node(g, uri, rest)
    [] _type = <<"concept">> -> _create_concept_node(g, uri, rest)
    [] _type = <<"frame">> -> _create_frame_node(g, uri, rest)
    [] _type = <<"relation">> -> _create_relation_node(g, uri, rest)
    [] _type = <<"source">> -> _create_source_node(g, uri, rest)
    [] _type = <<"web_concept">> -> Raise(g, "TypeError")
    [] OTHER -> Raise(g, "AttributeError")

\* _, _type, rest = uri.split('/', 2)
split_type(g, uri, parts) == create_method(g, uri, parts[2], parts[3])

\* _create_node_by_type on the normalized uri
by_type_normalized(g, uri) ==
  IF count(uri, SL) < 2 THEN Raise(g, "ValueError")
  ELSE split_type(g, uri, split(uri, SL, 2))

\* graph.py _create_node_by_type
_create_node_by_type(g, uri0) == by_type_normalized(g, normalize_uri(uri0))

\* `a or b` on the outcome r of a: b runs when a returned None
OrElse(r, K(_)) == IF r.err # "" \/ r.val # 0 THEN r ELSE K(r)

\* graph.py get_or_create_node: self.get_node(uri) or self._create_node_by_type(uri)
get_or_create_node(g, uri) ==
  OrElse(get_node(g, uri), LAMBDA r : _create_node_by_type(g, uri))

\* graph.py _any_to_uri; val is the URI.  obj['uri'] and get_node_by_id ask
\* the store, which has no answer for a node that is gone
_any_to_uri(g, obj) ==
  CASE obj.kind = "uri" -> Return(g, normalize_uri(obj.uri))
    [] OTHER ->
         IF obj.id \notin NodeIds(g)
           THEN Raise(g, "NotFoundError")
           ELSE Return(g, NodeById(g, obj.id).uri)

\* graph.py _any_to_node
_any_to_node(g, obj, create) ==
  CASE obj.kind = "node" -> Return(g, obj.id)
    [] obj.kind = "uri" ->
         OrElse(get_node(g, obj.uri), LAMBDA node :
           IF create THEN get_or_create_node(g, obj.uri)
           ELSE Raise(g, "ValueError"))
    [] obj.kind = "id" -> get_node_by_id(g, obj.id)

\* graph.py _any_to_id
_any_to_id(g, obj) ==
  CASE obj.kind = "node" -> Return(g, obj.id)
    [] obj.kind = "uri" ->
         OrElse(get_node(g, obj.uri), LAMBDA node : Raise(g, "ValueError"))
    [] obj.kind = "id" -> Return(g, obj.id)

RECURSIVE any_to_uris(_, _)
\* [self._any_to_uri(arg) for arg in args]; val is the list of URIs
any_to_uris(g, args) ==
  IF args = <<>> THEN Return(g, <<>>)
  ELSE Then(_any_to_uri(g, Head(args)), LAMBDA u :
         Then(any_to_uris(g, Tail(args)), LAMBDA t :
           Return(g, <<u.val>> \o t.val)))

RECURSIVE any_to_nodes(_, _, _)
\* [self._any_to_node(arg, create=True) for arg in args]; val is the list of
\* nodes, and a node created before a later argument raises stays created
any_to_nodes(g, args, acc) ==
  IF args = <<>> THEN Return(g, acc)
  ELSE Then(_any_to_node(g, Head(args), TRUE), LAMBDA r :
         any_to_nodes(r.g, Tail(args), Append(acc, r.val)))

\* get_or_create_assertion from the uri on
assertion_by_uri(g, uri, relation, args) ==
  OrElse(get_node(g, uri), LAMBDA none :
    Then(_any_to_node(g, relation, TRUE), LAMBDA rel :
      Then(any_to_nodes(rel.g, args, <<>>), LAMBDA nodes :
        _create_assertion_w_components(nodes.g, uri, rel.val, nodes.val))))

\* graph.py get_or_create_assertion
get_or_create_assertion(g, relation, args) ==
  Then(_any_to_uri(g, relation), LAMBDA rel_uri :
    Then(any_to_uris(g, args), LAMBDA arg_uris :
      assertion_by_uri(g, make_assertion_uri(rel_uri.val, arg_uris.val),
                       relation, args)))

\* return self.get_node(uri) or self._create_node_by_type(uri, {})
node_or_by_type(g, uri) ==
  OrElse(get_node(g, uri), LAMBDA none : _create_node_by_type(g, uri))

\* graph.py get_or_create_concept; disambiguation = <<>> is the default ''
get_or_create_concept(g, language, name0, disambiguation) ==
  node_or_by_type(g,
    <<SL, "concept", SL>> \o language \o <<SL>> \o replace(name0, SL, <<US>>)
    \o (IF disambiguation # <<>> THEN <<SL>> \o disambiguation ELSE <<>>))

\* get_or_create_conjunction from the uri on
conjunction_by_uri(g, uri) ==
  OrElse(get_node(g, uri), LAMBDA none :
    _create_node(g, "conjunction", uri, <<>>, <<>>))

\* graph.py get_or_create_conjunction
get_or_create_conjunction(g, conjuncts) ==
  Then(any_to_uris(g, conjuncts), LAMBDA uris :
    conjunction_by_uri(g, <<SL, "conjunction", SL>>
                          \o list_to_uri_piece(sort(uris.val))))

\* graph.py get_or_create_frame
get_or_create_frame(g, language, name0) ==
  node_or_by_type(g,
    <<SL, "frame", SL>> \o language \o <<SL>> \o replace(name0, SL, <<US>>))

\* graph.py get_or_create_relation
get_or_create_relation(g, name) ==
  node_or_by_type(g, <<SL, "relation", SL>> \o name)

\* graph.py get_or_create_source: "source/" has no leading slash
get_or_create_source(g, source_list) ==
  node_or_by_type(g, normalize_uri(<<"source", SL>> \o join(<<SL>>, source_list)))

\* get_or_create_web_concept from the uri on
web_concept_by_uri(g, uri) ==
  OrElse(get_node(g, uri), LAMBDA none : _create_web_concept_node(g, uri))

\* graph.py get_or_create_web_concept: the lookup normalizes the uri, the
\* builder stores it as it is
get_or_create_web_concept(g, url) ==
  web_concept_by_uri(g, <<"web_concept", SL>> \o url)

\* graph.py _create_edge: both ends resolved by _any_to_node, then the edge
_create_edge(g, type, source, target, properties) ==
  Then(_any_to_node(g, source, FALSE), LAMBDA s :
    Then(_any_to_node(g, target, FALSE), LAMBDA t :
      create_relationship(g, type, s.val, t.val, properties)))

\* graph.py get_edges; val is the set of edges under the key "source-target"
get_edges(g, source, target) ==
  Then(_any_to_id(g, source), LAMBDA s :
    Then(_any_to_id(g, target), LAMBDA t :
      Return(g, {e \in g.edges : e.props.nodes = <<s.val, t.val>>})))

\* the edges of get_edges that get_edge keeps: those of the type
of_type(edges, type) == {e.id : e \in {x \in edges : x.type = type}}

\* get_edge that finds no edge
get_edge_none(g, type, source, target, first) == Return(g, 0)

\* graph.py get_edge; first is the match the index lists first
get_edge(g, type, source, target, first) ==
  Then(get_edges(g, source, target), LAMBDA edges :
    IF of_type(edges.val, type) = {} THEN Return(g, 0)
    ELSE Return(g, first))

\* graph.py get_or_create_edge
get_or_create_edge(g, type, source, target, properties, first) ==
  OrElse(get_edge(g, type, source, target, first), LAMBDA none :
    _create_edge(g, type, source, target, properties))

\* graph.py justify
justify(g, source, target, weight, first) ==
  get_or_create_edge(g, "justifies", source, target, [weight |-> weight], first)

\* edge['position']
position(g, id) == (CHOOSE e \in g.edges : e.id = id).props.position

\* x put after the last element of the sorted t whose key is not greater
insert_by_position(g, t, x) ==
  SubSeq(t, 1, Cardinality({i \in 1..Len(t) : position(g, t[i]) <= position(g, x)}))
  \o <<x>> \o
  SubSeq(t, Cardinality({i \in 1..Len(t) : position(g, t[i]) <= position(g, x)}) + 1,
         Len(t))

RECURSIVE sort_by_position(_, _)
\* edges.sort(key = lambda edge: edge['position']) of a list of edge ids;
\* list.sort is stable
sort_by_position(g, edges) ==
  IF edges = <<>> THEN <<>>
  ELSE insert_by_position(g, sort_by_position(g, SubSeq(edges, 1, Len(edges) - 1)),
                          edges[Len(edges)])

\* the arg edges of a node: assertion.relationships.outgoing(types=['arg'])
arg_edges(g, id) == {e.id : e \in {x \in outgoing(g, id) : x.type = "arg"}}

\* [edge.end for edge in edges]
ends(g, edges) ==
  [i \in 1..Len(edges) |-> (CHOOSE e \in g.edges : e.id = edges[i]).end]

\* graph.py get_args; order is the list of arg edges as the backend returns it,
\* val the list of argument nodes
get_args(g, assertion, order) ==
  Then(_any_to_node(g, assertion, FALSE), LAMBDA a :
    Return(g, ends(g, sort_by_position(g, order))))

\* graph.py get_rel_and_args.  Line 632 passes types=['relation'][0], the
\* string 'relation', and keeps what outgoing() returns, a list of edges, as
\* rel_edge; line 633 then reads rel_edge.end, and a list has no attribute
\* 'end': AttributeError, whatever the edges are
get_rel_and_args(g, assertion, order) ==
  Then(_any_to_node(g, assertion, FALSE), LAMBDA a : Raise(g, "AttributeError"))

\* the edge of the type from source to target that get_edge returns when the
\* index lists any (0: none)
listed(g, type, source, target) ==
  IF of_type(get_edges(g, ByRef(source), ByRef(target)).val, type) = {} THEN 0
  ELSE CHOOSE e \in of_type(get_edges(g, ByRef(source), ByRef(target)).val, type) :
         TRUE

RECURSIVE normalize_pairs(_, _, _)
\* the loop of derive_normalized over zip(nodes1, nodes2): a normalized edge
\* between the two nodes of a pair that differ
normalize_pairs(g, nodes1, nodes2) ==
  IF nodes1 = <<>> \/ nodes2 = <<>> THEN Return(g, 0)
  ELSE IF Head(nodes1) = Head(nodes2)
    THEN normalize_pairs(g, Tail(nodes1), Tail(nodes2))
  ELSE Then(get_or_create_edge(g, "normalized", ByRef(Head(nodes1)),
                               ByRef(Head(nodes2)), NoProps,
                               listed(g, "normalized", Head(nodes1), Head(nodes2))),
            LAMBDA e : normalize_pairs(e.g, Tail(nodes1), Tail(nodes2)))

\* assert weight > 0 with the comparison left out
positive_or_not(weight) == TRUE

\* line 666 of derive_normalized: assert weight > 0
positive(weight) == weight > 0

\* derive_normalized after the assertion: the normalized edge, the
\* justification, then the two get_rel_and_args calls that zip() takes, and
\* the loop; the value is the normalized edge
derive_edges(g, source, target, weight, first, justified) ==
  Then(get_or_create_edge(g, "normalized", source, target, NoProps, first),
       LAMBDA edge :
    Then(justify(edge.g, source, target, weight, justified), LAMBDA j :
      Then(get_rel_and_args(j.g, source, <<>>), LAMBDA nodes1 :
        Then(get_rel_and_args(nodes1.g, target, <<>>), LAMBDA nodes2 :
          Then(normalize_pairs(nodes2.g, nodes1.val, nodes2.val), LAMBDA done :
            Return(done.g, edge.val))))))

\* graph.py derive_normalized; first and justified are the normalized and the
\* justifies edge the index lists first for the pair (0: none)
derive_normalized(g, source, target, weight, first, justified) ==
  IF ~positive(weight) THEN Raise(g, "AssertionError")
  ELSE derive_edges(g, source, target, weight, first, justified)

\* lines 693-696 of delete_node with the scan left out
referenced_never(g, id) == FALSE

\* lines 693-696 of delete_node, were a node that an assertion once pointed
\* to counted as referenced for good
referenced_once(g, id) ==
  \/ id \in freed
  \/ \E edge \in incoming(g, id) : NodeById(g, edge.start).type = "assertion"

\* lines 693-696 of delete_node: some incoming edge starts at an assertion
referenced_by_assertion(g, id) ==
  \E edge \in incoming(g, id) : NodeById(g, edge.start).type = "assertion"

\* the outgoing edges of a node that have no property 'type'
untyped(g, id) == {e \in outgoing(g, id) : "type" \notin DOMAIN e.props}

\* lines 689-691 of delete_node: the outgoing edges whose 'type' is
\* 'conjunction'
conj_list(g, id) ==
  {e \in outgoing(g, id) \ untyped(g, id) : e.props.type = "conjunction"}

\* lines 687-696 of delete_node: the flag delete
may_delete(g, node) ==
  IF node.type = "source" THEN TRUE
  ELSE IF node.type # "conjunction" THEN ~referenced_by_assertion(g, node.id)
  ELSE TRUE

\* delete_node on the node found
delete_found(g, node, absent) ==
  IF node.type = "source" /\ untyped(g, node.id) # {} /\ absent = "raise"
    THEN Raise(g, "KeyError")
  ELSE IF may_delete(g, node)
    THEN Return([g EXCEPT
                   !.edges = (@ \ relationships(g, node.id)) \ conj_list(g, node.id),
                   !.nodes = @ \ {node}], 0)
  ELSE Raise(g, "AssertionError")

\* graph.py delete_node.  Lines 689-691 walk node.relationships.outgoing(),
\* whose elements are edges (line 694 reads edge.start of incoming()'s), and
\* read the property 'type' of each: no edge this module creates has one
\* (the edge's type is edge.type, line 381).  absent says what the client
\* library does for a property that is not there: "raise", or "none" when
\* the read yields no value and the comparison is false.
delete_node(g, obj, absent) ==
  Then(_any_to_node(g, obj, FALSE), LAMBDA r :
    delete_found(g, NodeById(g, r.val), absent))

--------------------------------------------------------------------------
(* What the callers pass. *)

Lang == <<"en">>
NameAB == <<"a", SP, "b">>
U_A == <<SL, "concept", SL, "en", SL, "a">>
U_AB == <<SL, "concept", SL, "en", SL, "a", SP, "b">>
U_R == <<SL, "relation", SL, "r">>
U_S == <<SL, "source", SL, "s">>
U_ASSERTION == make_assertion_uri(U_R, <<U_A>>)

\* URIs given to get_or_create_node; one has whitespace to normalize
NodeURIs == {<<SP>> \o U_AB, U_S, U_ASSERTION}
ConceptNames == {NameAB}
FrameNames == {<<"f">>}
RelationNames == {<<"r">>}
SourceLists == {<< <<"s">> >>}
WebURLs == {<<"w", SP, "x">>}
\* a weight is counted in halves: 1 is 0.5, 2 is 1.0
Weights == {1}
\* the weights given to derive_normalized: -0.5, 0, 0.5 and 1.5
DeriveWeights == {-1, 0, 1, 3}
\* the weight given to justify between assertions: -1.5
HeavyWeights == {-3}

SeqsUpTo(S, n) == UNION {[1..k -> S] : k \in 1..n}

NodesOfType(g, types) == {n.id : n \in {x \in g.nodes : x.type \in types}}

\* the relation of an assertion: by URI, or a relation node by id
RelRefs(g) == {ByURI(U_R)} \cup {ById(id) : id \in NodesOfType(g, {"relation"})}

\* an argument or a conjunct in Spec: a concept by URI, or a web concept node
\* by reference (a web concept has no URI get_or_create_node accepts)
WebRefs(g) == {ByURI(U_A)} \cup {ByRef(id) : id \in NodesOfType(g, {"web_concept"})}

\* an argument in SpecDelete: a concept or a source by URI, or a conjunction
\* node by reference
ArgRefs(g) ==
  {ByURI(U_A), ByURI(U_S)} \cup {ByRef(id) : id \in NodesOfType(g, {"conjunction"})}

\* the permutations of a finite set, as sequences
Perms(S) ==
  {f \in [1..Cardinality(S) -> S] : \A x \in S : \E i \in DOMAIN f : f[i] = x}

IsPerm(a, b) ==
  /\ Len(a) = Len(b)
  /\ \A x \in {a[i] : i \in DOMAIN a} \cup {b[i] : i \in DOMAIN b} :
       Cardinality({i \in DOMAIN a : a[i] = x}) =
       Cardinality({i \in DOMAIN b : b[i] = x})

--------------------------------------------------------------------------
(* The state machine.                                                      *)
(*   graph    the store                                                    *)
(*   last     the last call: op, its operation; uris, the strings it was   *)
(*            given, a node argument standing as the URI _any_to_uri reads *)
(*            from it; node, the node a delete_node or get_args argument   *)
(*            resolved to and ntype its type; res, the node it returned;   *)
(*            list, the list of nodes it returned; err, its exception;     *)
(*            created, how many                                            *)
(*            nodes and edges it created; again: the call before was the   *)
(*            same operation on URI-equivalent arguments and returned;     *)
(*            perm: it was the same operation on a permutation of the      *)
(*            arguments and returned; prev: what the call before returned  *)
(*            when it was the same operation (0 otherwise)                 *)
(*   freed    history: the nodes a deleted assertion pointed to            *)
(*            target, weight: the second node and the weight given to      *)
(*            justify between assertions and to derive_normalized          *)
(*   callers  the concurrent callers of get_or_create_node (SpecRace)      *)
(*   bulk     the GremlinWriterGraph object (SpecBulk)                     *)
(*   pure     a module-level function applied to an argument: arg, the     *)
(*            argument; step, how many times a function was applied; once  *)
(*            and twice, the first and the second result                   *)

Idle == [pc |-> "idle", uri |-> <<>>, res |-> 0, err |-> ""]

\* GremlinWriterGraph.__init__: recently_created_uris = []; output holds the
\* URIs of the makeNode statements written, in order, and asked and found the
\* URI of the last get_or_create_node call and what its get_node returned
NewWriter ==
  [recently_created_uris |-> <<>>, output |-> <<>>, asked |-> <<>>,
   found |-> FALSE, err |-> ""]

\* no function applied yet to the argument
Unapplied(arg) == [arg |-> arg, step |-> 0, once |-> <<>>, twice |-> <<>>]

\* no call yet
NoCall ==
  [op |-> "", uris |-> <<>>, node |-> 0, ntype |-> "", res |-> 0,
   list |-> <<>>,
   err |-> "", created |-> 0, again |-> FALSE, perm |-> FALSE,
   prev |-> 0, target |-> 0, weight |-> 0]

Init ==
  /\ graph = EmptyGraph
  /\ last = NoCall
  /\ freed = {}
  /\ callers = [c \in {1, 2} |-> Idle]
  /\ bulk = NewWriter
  /\ pure = Unapplied(<<>>)

Normalized(uris) == [i \in DOMAIN uris |-> normalize_uri(uris[i])]

\* the URI strings a call gives: a node argument stands as the URI
\* _any_to_uri reads from it
uris_of(g, refs) ==
  IF any_to_uris(g, refs).err # "" THEN <<>> ELSE any_to_uris(g, refs).val

\* the node an argument names before the call (0: none)
named(g, obj) == _any_to_node(g, obj, FALSE).val

TypeOf(g, id) == IF id = 0 THEN "" ELSE NodeById(g, id).type

\* the targets of the edges that leave the assertion nodes of g missing in h
freed_by(g, h) ==
  {e.end : e \in {x \in g.edges : /\ x.start \notin NodeIds(h)
                                  /\ NodeById(g, x.start).type = "assertion"}}

\* one serialized call: op on the strings uris (and on the node, if any) left
\* the outcome out, whose value is a node or None when isNode and a list of
\* nodes otherwise
CallOn(op, uris, node, target, weight, out, isNode) ==
  /\ out.g.nextNode <= MaxNodes + 1
  /\ graph' = out.g
  /\ last' = [op |-> op, uris |-> uris, node |-> node,
              ntype |-> TypeOf(graph, node),
              res |-> IF out.err = "" /\ isNode THEN out.val ELSE 0,
              list |-> IF out.err = "" /\ ~isNode THEN out.val ELSE <<>>,
              err |-> out.err,
              created |-> (out.g.nextNode - graph.nextNode)
                          + (out.g.nextEdge - graph.nextEdge),
              again |-> /\ last.op = op /\ last.err = ""
                        /\ Normalized(uris) = Normalized(last.uris),
              perm |-> last.op = op /\ last.err = "" /\ IsPerm(uris, last.uris),
              prev |-> IF last.op = op /\ last.err = "" THEN last.res ELSE 0,
              target |-> target, weight |-> weight]
  /\ freed' = freed \cup
              IF op = "delete_node" /\ out.err = "" THEN freed_by(graph, out.g)
              ELSE {}
  /\ UNCHANGED <<callers, bulk, pure>>

Call(op, uris, node, out, isNode) == CallOn(op, uris, node, 0, 0, out, isNode)

GetOrCreateNode(uris) ==
  \E uri \in uris :
    Call("get_or_create_node", <<uri>>, 0, get_or_create_node(graph, uri), TRUE)

GetOrCreateConcept ==
  \E name \in ConceptNames :
    Call("get_or_create_concept", <<Lang, name>>, 0,
         get_or_create_concept(graph, Lang, name, <<>>), TRUE)

GetOrCreateFrame ==
  \E name \in FrameNames :
    Call("get_or_create_frame", <<Lang, name>>, 0,
         get_or_create_frame(graph, Lang, name), TRUE)

GetOrCreateRelation ==
  \E name \in RelationNames :
    Call("get_or_create_relation", <<name>>, 0,
         get_or_create_relation(graph, name), TRUE)

GetOrCreateSource ==
  \E source_list \in SourceLists :
    Call("get_or_create_source", source_list, 0,
         get_or_create_source(graph, source_list), TRUE)

GetOrCreateWebConcept ==
  \E url \in WebURLs :
    Call("get_or_create_web_concept", <<url>>, 0,
         get_or_create_web_concept(graph, url), TRUE)

GetOrCreateConjunction(refs) ==
  \E conjuncts \in SeqsUpTo(refs, MaxArgs) :
    Call("get_or_create_conjunction", uris_of(graph, conjuncts), 0,
         get_or_create_conjunction(graph, conjuncts), TRUE)

GetOrCreateAssertion(rels, refs) ==
  \E relation \in rels, args \in SeqsUpTo(refs, MaxArgs) :
    Call("get_or_create_assertion", uris_of(graph, <<relation>> \o args), 0,
         get_or_create_assertion(graph, relation, args), TRUE)

\* the justifies edges from source to target, one of which get_edge returns
\* (0 when there is none)
first_of(edges) == IF edges = {} THEN {0} ELSE edges

Justify ==
  \E source \in NodesOfType(graph, {"source"}),
     target \in NodesOfType(graph, {"assertion", "conjunction"}),
     weight \in Weights :
    \E first \in first_of(of_type(get_edges(graph, ByRef(source),
                                            ByRef(target)).val, "justifies")) :
      Call("justify", <<>>, 0,
           justify(graph, ByRef(source), ByRef(target), weight, first), TRUE)

GetArgs ==
  \E a \in NodesOfType(graph, {"assertion"}) :
    \E order \in Perms(arg_edges(graph, a)) :
      Call("get_args", <<>>, a, get_args(graph, ByRef(a), order), FALSE)

GetRelAndArgs ==
  \E a \in NodesOfType(graph, {"assertion"}) :
    \E order \in Perms(arg_edges(graph, a)) :
      Call("get_rel_and_args", <<>>, a,
           get_rel_and_args(graph, ByRef(a), order), FALSE)

DeleteNode ==
  \E obj \in {ByRef(id) : id \in NodeIds(graph)} \cup {ByURI(U_A)},
     absent \in {"raise", "none"} :
    Call("delete_node", <<>>, named(graph, obj),
         delete_node(graph, obj, absent), TRUE)

(* Spec: serialized calls of the eight get-or-create operations. *)
Next ==
  \/ GetOrCreateNode(NodeURIs)
  \/ GetOrCreateConcept
  \/ GetOrCreateFrame
  \/ GetOrCreateRelation
  \/ GetOrCreateSource
  \/ GetOrCreateWebConcept
  \/ GetOrCreateConjunction(WebRefs(graph))
  \/ GetOrCreateAssertion({ByURI(U_R)}, WebRefs(graph))

Spec == Init /\ [][Next]_vars

(* SpecDelete: serialized calls that build assertions, conjunctions and     *)
(* justifications, read them back and delete nodes.                        *)
NextDelete ==
  \/ GetOrCreateConjunction({ByURI(U_A)})
  \/ GetOrCreateAssertion(RelRefs(graph), ArgRefs(graph))
  \/ Justify
  \/ GetArgs
  \/ GetRelAndArgs
  \/ DeleteNode

SpecDelete == Init /\ [][NextDelete]_vars

\* URIs given to get_or_create_node in SpecByType: a concept, a relation, a
\* source and a frame; a URI of one segment, one of a type with no
\* _create_<type>_node method, a concept with no name and a frame of three
\* parts
TypedURIs ==
  {U_A, U_R, U_S, <<SL, "frame", SL, "en", SL, "f">>,
   <<SL, "concept">>, <<SL, "thing", SL, "x">>, <<SL, "concept", SL, "en">>,
   <<SL, "frame", SL, "en", SL, "f", SL, "x">>}
\* the disambiguation given to get_or_create_concept
Senses == {<<"n">>}

GetOrCreateConceptSense ==
  \E disambiguation \in Senses :
    Call("get_or_create_concept", <<Lang, <<"a">>, disambiguation>>, 0,
         get_or_create_concept(graph, Lang, <<"a">>, disambiguation), TRUE)

(* SpecByType: serialized get_or_create_node calls on URIs of every shape,  *)
(* and get_or_create_concept calls with a disambiguation.                  *)
NextByType ==
  \/ GetOrCreateNode(TypedURIs)
  \/ GetOrCreateConceptSense

SpecByType == Init /\ [][NextByType]_vars

\* the edges of the type from source to target, one of which get_edge returns
\* (0 when there is none)
firsts(g, type, source, target) ==
  first_of(of_type(get_edges(g, ByRef(source), ByRef(target)).val, type))

JustifyAssertions ==
  \E source \in NodesOfType(graph, {"assertion"}), weight \in HeavyWeights :
   \E target \in NodesOfType(graph, {"assertion"}) \ {source} :
    \E first \in firsts(graph, "justifies", source, target) :
      CallOn("justify", <<>>, source, target, weight,
             justify(graph, ByRef(source), ByRef(target), weight, first), TRUE)

DeriveNormalized ==
  \E source \in NodesOfType(graph, {"assertion"}), weight \in DeriveWeights :
   \E target \in NodesOfType(graph, {"assertion"}) \ {source} :
    \E first \in firsts(graph, "normalized", source, target),
       justified \in firsts(graph, "justifies", source, target) :
      CallOn("derive_normalized", <<>>, source, target, weight,
             derive_normalized(graph, ByRef(source), ByRef(target), weight,
                               first, justified), TRUE)

(* SpecDerive: serialized calls that build assertions over one relation and *)
(* justify and normalize one assertion by another.                         *)
NextDerive ==
  \/ GetOrCreateAssertion({ByURI(U_R)}, {ByURI(U_A), ByURI(U_R)})
  \/ JustifyAssertions
  \/ DeriveNormalized

SpecDerive == Init /\ [][NextDerive]_vars

(* SpecEdges: serialized calls that build assertions and conjunctions,    *)
(* add justifies and normalized edges and delete nodes.                    *)
NextEdges ==
  \/ GetOrCreateConjunction({ByURI(U_A)})
  \/ GetOrCreateAssertion({ByURI(U_R)}, {ByURI(U_S)})
  \/ Justify
  \/ DeriveNormalized
  \/ DeleteNode

SpecEdges == Init /\ [][NextEdges]_vars

--------------------------------------------------------------------------
(* SpecRace: two callers inside get_or_create_node at once.  The method is *)
(* `self.get_node(uri) or self._create_node_by_type(uri)`: a lookup, then, *)
(* on a miss, a create; the store runs each of the two as one request and  *)
(* nothing holds the store between them.                                   *)

RaceURIs == {U_A, U_R, U_S}

\* the right operand of the `or`: what a caller that missed does next
create_if_absent(g, uri) == get_or_create_node(g, uri)

create_after_miss(g, uri) == _create_node_by_type(g, uri)

\* the left operand: self.get_node(uri)
RaceLookup(c) ==
  /\ callers[c].pc = "idle"
  /\ \E uri \in RaceURIs :
       LET r == get_node(graph, uri)
       IN  callers' = [callers EXCEPT ![c] = [pc |-> "looked", uri |-> uri,
                                               res |-> r.val, err |-> r.err]]
  /\ UNCHANGED <<graph, last, freed, bulk, pure>>

\* get_node returned None: self._create_node_by_type(uri)
RaceCreate(c) ==
  /\ callers[c].pc = "looked"
  /\ callers[c].err = ""
  /\ callers[c].res = 0
  /\ LET out == create_after_miss(graph, callers[c].uri)
     IN  /\ out.g.nextNode <= MaxNodes + 1
         /\ graph' = out.g
         /\ callers' = [callers EXCEPT ![c].pc = "done", ![c].res = out.val,
                                       ![c].err = out.err]
  /\ UNCHANGED <<last, freed, bulk, pure>>

\* get_node returned a node, or raised: the call ends with that
RaceReturn(c) ==
  /\ callers[c].pc = "looked"
  /\ callers[c].err # "" \/ callers[c].res # 0
  /\ callers' = [callers EXCEPT ![c].pc = "done"]
  /\ UNCHANGED <<graph, last, freed, bulk, pure>>

\* the caller's next call
RaceAgain(c) ==
  /\ callers[c].pc = "done"
  /\ callers' = [callers EXCEPT ![c] = Idle]
  /\ UNCHANGED <<graph, last, freed, bulk, pure>>

NextRace ==
  \/ \E c \in DOMAIN callers : RaceLookup(c)
  \/ \E c \in DOMAIN callers : RaceCreate(c)
  \/ \E c \in DOMAIN callers : RaceReturn(c)
  \/ \E c \in DOMAIN callers : RaceAgain(c)

SpecRace == Init /\ [][NextRace]_vars

--------------------------------------------------------------------------
(* SpecDeleteRace: caller 1 inside get_or_create_assertion and caller 2    *)
(* inside delete_node at once.  Each request to the store is one step: the *)
(* assertion node, its relation edge and its arg edge are three requests   *)
(* (lines 196-204), and delete_node reads the incoming edges (lines        *)
(* 693-696) before it sends its deletions (lines 697-702).                 *)

\* get_or_create_assertion up to the assertion node of line 196: the lookup,
\* the relation and argument nodes, the node; the components are kept in
\* made for the edges to come
assertion_node(g, uri, relation, args) ==
  OrElse(get_node(g, uri), LAMBDA none :
    Then(_any_to_node(g, relation, TRUE), LAMBDA rel :
      Then(any_to_nodes(rel.g, args, <<>>), LAMBDA nodes :
        Then(_create_node(nodes.g, "assertion", uri, <<>>, <<>>), LAMBDA a :
          Return([a.g EXCEPT !.made = @ @@ (a.val :> <<rel.val>> \o nodes.val)],
                 a.val)))))

\* self._create_edge of lines 202 and 204, both ends being Node objects: the
\* store refuses an edge to a node that is gone
component_edge(g, type, assertion, node, properties) ==
  IF node \notin NodeIds(g) THEN Raise(g, "NotFoundError")
  ELSE create_relationship(g, type, assertion, node, properties)

\* lines 697-702 of delete_node with the scan of lines 693-696 made again
\* before them
delete_rechecked(g, id) ==
  IF referenced_by_assertion(g, id) THEN Raise(g, "AssertionError")
  ELSE Return([g EXCEPT !.edges = @ \ relationships(g, id),
                        !.nodes = @ \ {NodeById(g, id)}], 0)

\* lines 697-702 of delete_node, delete being True: the edges of the node as
\* they are now, then the node
delete_passed(g, id) ==
  Return([g EXCEPT !.edges = @ \ relationships(g, id),
                   !.nodes = @ \ {NodeById(g, id)}], 0)

\* caller 1: get_or_create_assertion(relation, [arg]) up to line 201
AssertNode ==
  /\ callers[1].pc = "idle"
  /\ \E arg \in {U_A, U_S} :
       LET uri == make_assertion_uri(U_R, <<arg>>)
           out == assertion_node(graph, uri, ByURI(U_R), <<ByURI(arg)>>)
       IN  /\ out.g.nextNode <= MaxNodes + 1
           /\ graph' = out.g
           /\ callers' = [callers EXCEPT ![1] =
                [pc |-> IF out.err = "" /\ out.g # graph THEN "relation" ELSE "done",
                 uri |-> uri, res |-> out.val, err |-> out.err]]
  /\ UNCHANGED <<last, freed, bulk, pure>>

\* caller 1: line 202, the relation edge
AssertRelationEdge ==
  /\ callers[1].pc = "relation"
  /\ LET out == component_edge(graph, "relation", callers[1].res,
                               graph.made[callers[1].res][1], NoProps)
     IN  /\ graph' = out.g
         /\ callers' = [callers EXCEPT ![1].pc = IF out.err = "" THEN "arg" ELSE "done",
                                       ![1].err = out.err]
  /\ UNCHANGED <<last, freed, bulk, pure>>

\* caller 1: line 204, the arg edge, and the return
AssertArgEdge ==
  /\ callers[1].pc = "arg"
  /\ LET out == component_edge(graph, "arg", callers[1].res,
                               graph.made[callers[1].res][2], [position |-> 1])
     IN  /\ graph' = out.g
         /\ callers' = [callers EXCEPT ![1].pc = "done", ![1].err = out.err]
  /\ UNCHANGED <<last, freed, bulk, pure>>

\* caller 2: delete_node of a concept or relation node up to line 696, the
\* flag delete
DeleteCheck ==
  /\ callers[2].pc = "idle"
  /\ \E id \in NodesOfType(graph, {"concept", "relation"}) :
       callers' = [callers EXCEPT ![2] =
         [pc |-> "checked", uri |-> <<>>, res |-> id,
          err |-> IF may_delete(graph, NodeById(graph, id)) THEN ""
                  ELSE "AssertionError"]]
  /\ UNCHANGED <<graph, last, freed, bulk, pure>>

\* caller 2: delete was True, lines 697-702
DeleteApply ==
  /\ callers[2].pc = "checked"
  /\ callers[2].err = ""
  /\ LET out == delete_passed(graph, callers[2].res)
     IN  /\ graph' = out.g
         /\ callers' = [callers EXCEPT ![2].pc = "done", ![2].err = out.err]
  /\ UNCHANGED <<last, freed, bulk, pure>>

\* caller 2: delete was False, line 703
DeleteRefuse ==
  /\ callers[2].pc = "checked"
  /\ callers[2].err # ""
  /\ callers' = [callers EXCEPT ![2].pc = "done"]
  /\ UNCHANGED <<graph, last, freed, bulk, pure>>

NextDeleteRace ==
  \/ AssertNode
  \/ AssertRelationEdge
  \/ AssertArgEdge
  \/ DeleteCheck
  \/ DeleteApply
  \/ DeleteRefuse
  \/ \E c \in DOMAIN callers : RaceAgain(c)

SpecDeleteRace == Init /\ [][NextDeleteRace]_vars

--------------------------------------------------------------------------
(* SpecBulk: GremlinWriterGraph, the variant of the graph that writes       *)
(* Gremlin statements to a file instead of asking the database, and         *)
(* remembers the URIs it created last.                                      *)

\* the 19 of recently_created_uris[-19:]
Kept == 19
\* makeNode statements written in one run
MaxStatements == 25

\* lst[-n:] with the slice left out
every_item(lst, n) == lst

\* lst[-n:], n > 0
last_items(lst, n) ==
  SubSeq(lst, IF Len(lst) > n THEN Len(lst) - n + 1 ELSE 1, Len(lst))

\* GremlinWriterGraph._create_node: the makeNode statement, then the queue
Gremlin_create_node(b, uri) ==
  [b EXCEPT !.output = Append(@, uri),
            !.recently_created_uris = last_items(@, Kept) \o <<uri>>]

\* GremlinWriterGraph.get_node: uri in self.recently_created_uris, the uri
\* as it is given
Gremlin_get_node(b, uri) ==
  \E i \in DOMAIN b.recently_created_uris : b.recently_created_uris[i] = uri

\* the _create_node_by_type the writer inherits.  The builder of a concept,
\* frame, relation or source URI reads the URI and calls self._create_node
\* once with the normalized URI, or raises before it does: what it does on an
\* empty store tells which
Gremlin_create_node_by_type(b, uri) ==
  IF _create_node_by_type(EmptyGraph, uri).err # ""
    THEN [b EXCEPT !.err = _create_node_by_type(EmptyGraph, uri).err]
  ELSE Gremlin_create_node(b, normalize_uri(uri))

\* the get_or_create_node the writer inherits:
\* self.get_node(uri) or self._create_node_by_type(uri)
Gremlin_get_or_create_node(b, uri) ==
  IF Gremlin_get_node(b, uri)
    THEN [b EXCEPT !.asked = uri, !.found = TRUE, !.err = ""]
  ELSE Gremlin_create_node_by_type(
         [b EXCEPT !.asked = uri, !.found = FALSE, !.err = ""], uri)

\* the n-th concept a bulk export names
BulkURI(n) == <<SL, "concept", SL, "en", SL, ToString(n)>>

\* the URIs written so far
Written(b) == {b.output[i] : i \in DOMAIN b.output}

\* get_or_create_node of a concept written before, or of the next new one
BulkGetOrCreateNode ==
  /\ \E n \in 1..Cardinality(Written(bulk)) + 1 :
       bulk' = Gremlin_get_or_create_node(bulk, BulkURI(n))
  /\ Len(bulk'.output) <= MaxStatements
  /\ UNCHANGED <<graph, last, freed, callers, pure>>

NextBulk == BulkGetOrCreateNode

SpecBulk == Init /\ [][NextBulk]_vars

\* makeNode statements written in one run of SpecBulkSpaced
MaxRepeats == 5

\* two concepts, each as a URI that normalize_uri changes (a space inside, a
\* space in front) and as the URI it changes it to
SpacedURIs == {U_AB, normalize_uri(U_AB), <<SP>> \o U_A, U_A}

\* get_or_create_node of one of the URIs as the caller writes it
BulkGetOrCreateSpaced ==
  /\ \E uri \in SpacedURIs : bulk' = Gremlin_get_or_create_node(bulk, uri)
  /\ Len(bulk'.output) <= MaxRepeats
  /\ UNCHANGED <<graph, last, freed, callers, pure>>

(* SpecBulkSpaced: the writer asked for URIs that are not normalized.      *)
NextBulkSpaced == BulkGetOrCreateSpaced

SpecBulkSpaced == Init /\ [][NextBulkSpaced]_vars

--------------------------------------------------------------------------
(* The module-level functions, applied to an argument drawn at the start.  *)

\* items of a list given to list_to_uri_piece
MaxItems == 2
\* characters of one item
MaxChars == 2
\* characters of a string given to normalize_uri
MaxURILen == 5

StringsOver(tokens, n) == UNION {[1..k -> tokens] : k \in 0..n}

\* a letter, the space and the characters JSON gives a meaning
CodecTokens == {"a", SP, QT, BS, CM}

CodecLists ==
  UNION {[1..k -> StringsOver(CodecTokens, MaxChars)] : k \in 0..MaxItems}

\* a letter, the two whitespace characters and the slash
URITokens == {"a", SP, TB, SL}

\* the state a function is applied in: an argument, and nothing else
InitPure(args) ==
  /\ graph = EmptyGraph
  /\ last = NoCall
  /\ freed = {}
  /\ callers = [c \in {1, 2} |-> Idle]
  /\ bulk = NewWriter
  /\ pure \in {Unapplied(arg) : arg \in args}

\* once = list_to_uri_piece(arg)
ListToUriPiece ==
  /\ pure.step = 0
  /\ pure' = [pure EXCEPT !.step = 1, !.once = list_to_uri_piece(pure.arg)]
  /\ UNCHANGED <<graph, last, freed, callers, bulk>>

\* twice = uri_piece_to_list(once)
UriPieceToList ==
  /\ pure.step = 1
  /\ pure' = [pure EXCEPT !.step = 2, !.twice = uri_piece_to_list(pure.once)]
  /\ UNCHANGED <<graph, last, freed, callers, bulk>>

(* SpecCodec: a list of strings encoded by list_to_uri_piece and decoded by *)
(* uri_piece_to_list.                                                      *)
NextCodec ==
  \/ ListToUriPiece
  \/ UriPieceToList

SpecCodec == InitPure(CodecLists) /\ [][NextCodec]_vars

\* once = normalize_uri(arg)
NormalizeUri ==
  /\ pure.step = 0
  /\ pure' = [pure EXCEPT !.step = 1, !.once = normalize_uri(pure.arg)]
  /\ UNCHANGED <<graph, last, freed, callers, bulk>>

\* twice = normalize_uri(once)
NormalizeAgain ==
  /\ pure.step = 1
  /\ pure' = [pure EXCEPT !.step = 2, !.twice = normalize_uri(pure.once)]
  /\ UNCHANGED <<graph, last, freed, callers, bulk>>

(* SpecNormalize: normalize_uri applied to a string, and to its result.    *)
NextNormalize ==
  \/ NormalizeUri
  \/ NormalizeAgain

SpecNormalize == InitPure(StringsOver(URITokens, MaxURILen)) /\ [][NextNormalize]_vars

--------------------------------------------------------------------------
(* Properties. *)

\* node id is the relation or an argument of an assertion node of g
IsComponent(g, id) ==
  \E e \in incoming(g, id) :
    /\ e.type \in {"relation", "arg"}
    /\ e.start \in NodesOfType(g, {"assertion"})

\* the nodes of g that carry the URI
Carrying(g, uri) == {n \in g.nodes : n.uri = uri}

\* C1 (Spec): after any sequence of serialized get-or-create calls, no two
\* nodes of the store have the same normalized URI.
C1_UniqueNormalizedURI ==
  \A m, n \in graph.nodes :
    normalize_uri(m.uri) = normalize_uri(n.uri) => m = n

\* C2 (SpecDelete): a get_or_create_assertion call that follows a call with
\* URI-equivalent relation and arguments returns the node that call returned
\* and creates nothing, and the store then holds one assertion node with that
\* URI, with one relation edge and one arg edge per argument leaving it.
C2_AssertionTwice ==
  (last.op = "get_or_create_assertion" /\ last.again) =>
    /\ last.err = ""
    /\ last.res = last.prev
    /\ last.created = 0
    /\ Cardinality(Carrying(graph, NodeById(graph, last.res).uri)) = 1
    /\ Cardinality({e \in outgoing(graph, last.res) : e.type = "relation"}) = 1
    /\ Cardinality({e \in outgoing(graph, last.res) : e.type = "arg"})
         = Len(last.uris) - 1

\* C3 (Spec): the node get_or_create_assertion returns has the URI
\* "/assertion/" + list_to_uri_piece of the normalized URIs of the relation
\* and the arguments, in order; and two calls in a row return the same node
\* exactly when those normalized URIs are the same.
C3_AssertionURI ==
  (last.op = "get_or_create_assertion" /\ last.err = "") =>
    /\ NodeById(graph, last.res).uri
         = <<SL, "assertion", SL>> \o list_to_uri_piece(Normalized(last.uris))
    /\ last.prev # 0 => (last.res = last.prev <=> last.again)

\* C4 (SpecDelete): in every reachable state the arg edges that leave an
\* assertion node have the positions 1..N, each once, N being the number of
\* arguments the assertion was created with.
C4_ArgPositions ==
  \A a \in NodesOfType(graph, {"assertion"}) :
    /\ {position(graph, e) : e \in arg_edges(graph, a)} = 1..(Len(graph.made[a]) - 1)
    /\ Cardinality(arg_edges(graph, a)) = Len(graph.made[a]) - 1

\* C5 (SpecDelete): delete_node on a node that is neither a source nor a
\* conjunction and is the relation or an argument of an assertion in the
\* store raises the integrity error and leaves every node and edge as it was.
C5_DeleteRefused ==
  [][(/\ last'.op = "delete_node"
      /\ last'.node # 0
      /\ last'.ntype \notin {"source", "conjunction"}
      /\ IsComponent(graph, last'.node))
     => (last'.err = "AssertionError" /\ graph' = graph)]_vars

\* C5: a delete_node of a concept or relation that an assertion uses was
\* refused.
C5_Refused ==
  /\ last.op = "delete_node"
  /\ last.err = "AssertionError"
  /\ last.ntype \in {"concept", "relation"}
  /\ IsComponent(graph, last.node)

\* C6 (SpecDelete): the relation node and every argument node of every
\* assertion in the store are in the store (no delete_node that succeeds
\* removes one of them, whatever its type).
C6_ComponentsLive ==
  \A a \in NodesOfType(graph, {"assertion"}) :
    \A i \in DOMAIN graph.made[a] : graph.made[a][i] \in NodeIds(graph)

\* C7 (SpecDelete): delete_node on a concept node that a deleted assertion
\* pointed to and that has no incoming edge left succeeds, and afterwards the
\* node and every edge from or to it are gone.
C7_DeleteAfterAssertion ==
  [][(/\ last'.op = "delete_node"
      /\ last'.ntype = "concept"
      /\ last'.node \in freed
      /\ last'.node \in NodeIds(graph)
      /\ incoming(graph, last'.node) = {})
     => (/\ last'.err = ""
         /\ last'.node \notin NodeIds(graph')
         /\ relationships(graph', last'.node) = {})]_vars

\* C7: a concept that a deleted assertion pointed to was deleted.
C7_Deleted ==
  /\ last.op = "delete_node"
  /\ last.err = ""
  /\ last.ntype = "concept"
  /\ last.node \in freed
  /\ last.node \notin NodeIds(graph)
  /\ relationships(graph, last.node) = {}

\* two nodes of g carry one URI
Duplicated(g) == \E m, n \in g.nodes : m # n /\ m.uri = n.uri

\* C8 (SpecRace): a caller of get_or_create_node whose lookup found no node
\* creates one even when another caller has created a node with that URI since
\* the lookup, so the store then holds one more node with the URI; and no step
\* takes a duplicate away.
C8_RaceDuplicates ==
  [][/\ \A c \in DOMAIN callers :
          (/\ callers[c].pc = "looked"
           /\ callers[c].err = ""
           /\ callers[c].res = 0
           /\ callers'[c].pc = "done"
           /\ Carrying(graph, normalize_uri(callers[c].uri)) # {})
          => /\ callers'[c].err = ""
             /\ Cardinality(Carrying(graph', normalize_uri(callers[c].uri)))
                  = Cardinality(Carrying(graph, normalize_uri(callers[c].uri))) + 1
     /\ Duplicated(graph) => Duplicated(graph')]_vars

\* C8: both callers asked for one URI, both created a node, and the store
\* holds the two nodes under that URI.
C8_BothCreated ==
  /\ \A c \in DOMAIN callers : callers[c].pc = "done" /\ callers[c].err = ""
  /\ callers[1].uri = callers[2].uri
  /\ callers[1].res # callers[2].res
  /\ {n.id : n \in Carrying(graph, normalize_uri(callers[1].uri))}
       = {callers[1].res, callers[2].res}

\* C9 (SpecDelete): get_args returns the argument nodes the assertion was
\* created with, in that order, for every order in which the store lists the
\* arg edges; get_rel_and_args returns the relation node followed by them.
C9_ArgsInOrder ==
  /\ last.op = "get_args" =>
       (last.err = "" /\ last.list = Tail(graph.made[last.node]))
  /\ last.op = "get_rel_and_args" =>
       (last.err = "" /\ last.list = graph.made[last.node])

\* C10 (Spec): a get_or_create_conjunction call that follows a call with a
\* permutation of the same conjuncts returns the node that call returned, and
\* the store holds one conjunction node with its URI.
C10_ConjunctionPermutation ==
  (last.op = "get_or_create_conjunction" /\ last.perm) =>
    /\ last.err = ""
    /\ last.res = last.prev
    /\ Cardinality({n \in Carrying(graph, NodeById(graph, last.res).uri) :
                      n.type = "conjunction"}) = 1

\* C10: [X, Y] and then [Y, X], X and Y different, gave one node.
C10_Swapped ==
  /\ last.op = "get_or_create_conjunction"
  /\ last.perm
  /\ ~last.again
  /\ Len(last.uris) = 2
  /\ last.res = last.prev
  /\ last.res # 0

\* C11 (SpecDerive): derive_normalized with a weight that is 0 or negative
\* raises the assertion's error before it writes anything: the store is as
\* it was.
C11_NonPositiveWeight ==
  [][(last'.op = "derive_normalized" /\ last'.weight <= 0)
     => (last'.err = "AssertionError" /\ graph' = graph)]_vars

\* C11: derive_normalized was called on two assertions with weight 0 or less
\* and was refused.
C11_Rejected ==
  /\ last.op = "derive_normalized"
  /\ last.weight <= 0
  /\ last.err = "AssertionError"
  /\ {last.node, last.target} \subseteq NodesOfType(graph, {"assertion"})

\* assertions a1 and a2 of g were made with one relation node, one first
\* argument and two different second arguments
SecondDiffers(g, a1, a2) ==
  /\ Len(g.made[a1]) = 3
  /\ Len(g.made[a2]) = 3
  /\ g.made[a1][1] = g.made[a2][1]
  /\ g.made[a1][2] = g.made[a2][2]
  /\ g.made[a1][3] # g.made[a2][3]

\* the edges of the type from node s to node t
Between(g, type, s, t) ==
  {e \in g.edges : e.type = type /\ e.start = s /\ e.end = t}

\* C12 (SpecDerive): derive_normalized(a1, a2, 0.5) on two assertions with the
\* same relation and first argument and different second arguments returns,
\* and the store then has one normalized edge a1 -> a2, one justifies edge
\* a1 -> a2 of weight 0.5, one normalized edge between the two second
\* arguments and none between the relation nodes or the first arguments.
C12_DeriveNormalized ==
  (/\ last.op = "derive_normalized"
   /\ last.weight = 1
   /\ SecondDiffers(graph, last.node, last.target)) =>
    /\ last.err = ""
    /\ Cardinality(Between(graph, "normalized", last.node, last.target)) = 1
    /\ Cardinality(Between(graph, "justifies", last.node, last.target)) = 1
    /\ \A e \in Between(graph, "justifies", last.node, last.target) :
         e.props.weight = 1
    /\ Cardinality(Between(graph, "normalized", graph.made[last.node][3],
                           graph.made[last.target][3])) = 1
    /\ \A i \in 1..2 :
         Between(graph, "normalized", graph.made[last.node][i],
                 graph.made[last.target][i]) = {}

\* C19 (SpecDerive): every justifies edge of the store has a weight from -1
\* to 1 (-2 to 2 halves), whatever weights justify and derive_normalized were
\* given.
C19_WeightRange ==
  \A e \in graph.edges :
    e.type = "justifies" => (-2 <= e.props.weight /\ e.props.weight <= 2)

\* the creations since the last creation of uri (0: it was the last one)
SinceCreated(b, uri) ==
  Len(b.output)
  - (CHOOSE i \in DOMAIN b.output :
       b.output[i] = uri /\ \A j \in i + 1..Len(b.output) : b.output[j] # uri)

\* C13 (SpecBulk): the queue of the bulk-export graph holds at most 20 URIs,
\* the last ones created, in the order of creation; get_node finds a URI
\* exactly when it is one of them; and get_or_create_node of a URI whose last
\* creation is 20 or more creations back finds nothing and writes a new
\* makeNode statement for it.
C13_RecentlyCreated ==
  /\ [](/\ Len(bulk.recently_created_uris) <= Kept + 1
        /\ bulk.recently_created_uris = last_items(bulk.output, Kept + 1)
        /\ \A uri \in Written(bulk) :
             Gremlin_get_node(bulk, uri) <=> SinceCreated(bulk, uri) < Kept + 1)
  /\ [][\A uri \in Written(bulk) :
          (/\ bulk' # bulk
           /\ bulk'.asked = uri
           /\ SinceCreated(bulk, uri) >= Kept + 1)
          => (~bulk'.found /\ bulk'.output = Append(bulk.output, uri))]_vars

\* C13: a concept that had left the queue was asked for again, was not found
\* and was written again.
C13_Evicted ==
  /\ Len(bulk.output) > Kept + 2
  /\ bulk.asked = BulkURI(1)
  /\ ~bulk.found
  /\ bulk.output[1] = BulkURI(1)
  /\ bulk.output[Len(bulk.output)] = BulkURI(1)
  /\ Len(bulk.recently_created_uris) = Kept + 1

\* C14 (SpecCodec): for every list of strings L, whatever their characters,
\* uri_piece_to_list(list_to_uri_piece(L)) is L.
C14_RoundTrip ==
  pure.step = 2 => pure.twice = [ok |-> TRUE, val |-> pure.arg]

\* C20 (SpecNormalize): normalize_uri(normalize_uri(u)) is normalize_uri(u),
\* and normalize_uri(u) has no space and neither starts nor ends with
\* whitespace.
C20_NormalizeIdempotent ==
  /\ pure.step >= 1 =>
       /\ \A i \in DOMAIN pure.once : pure.once[i] # SP
       /\ pure.once # <<>> =>
            /\ pure.once[1] \notin Whitespace
            /\ pure.once[Len(pure.once)] \notin Whitespace
  /\ pure.step = 2 => pure.twice = pure.once

\* C20: a string with whitespace at both ends and a space inside was
\* normalized twice.
C20_Normalized ==
  /\ pure.step = 2
  /\ Len(pure.arg) = 5
  /\ pure.arg[1] \in Whitespace
  /\ pure.arg[2] \notin Whitespace
  /\ pure.arg[3] = SP
  /\ pure.arg[4] \notin Whitespace
  /\ pure.arg[5] \in Whitespace
  /\ pure.once = <<pure.arg[2], US, pure.arg[4]>>
  /\ pure.twice = pure.once

\* C15 (SpecRace): get_node returns the node when one node of the store has
\* the normalized URI, None when none has, and raises the error of an
\* ambiguous result when more than one has; a get_or_create_node call whose
\* lookup raised ends with that error and creates no node.
C15_AmbiguousLookup ==
  [][\A c \in DOMAIN callers :
       /\ (callers[c].pc = "idle" /\ callers'[c].pc = "looked") =>
            /\ Cardinality(Carrying(graph, normalize_uri(callers'[c].uri))) = 1
                 => /\ callers'[c].err = ""
                    /\ callers'[c].res \in
                         {n.id : n \in Carrying(graph, normalize_uri(callers'[c].uri))}
            /\ Carrying(graph, normalize_uri(callers'[c].uri)) = {}
                 => (callers'[c].err = "" /\ callers'[c].res = 0)
            /\ Cardinality(Carrying(graph, normalize_uri(callers'[c].uri))) > 1
                 => callers'[c].err = "AssertionError"
       /\ (callers[c].pc = "looked" /\ callers[c].err # "" /\ callers'[c] # callers[c])
            => /\ callers'[c].pc = "done"
               /\ callers'[c].err = callers[c].err
               /\ graph' = graph]_vars

\* C15: a get_or_create_node call for a URI that two nodes carry ended with
\* the error of the lookup.
C15_Ambiguous ==
  \E c \in DOMAIN callers :
    /\ callers[c].pc = "done"
    /\ callers[c].err = "AssertionError"
    /\ Cardinality(Carrying(graph, normalize_uri(callers[c].uri))) = 2

\* C16 (Spec): get_or_create_source on a non-empty list of segments returns a
\* source node whose URI is "/source/" and the segments joined by "/" and
\* whose name is the last segment; the next call with the same list returns
\* the same node and creates nothing.
C16_SourceNode ==
  last.op = "get_or_create_source" =>
    /\ last.err = ""
    /\ NodeById(graph, last.res).type = "source"
    /\ NodeById(graph, last.res).uri = <<SL, "source", SL>> \o join(<<SL>>, last.uris)
    /\ NodeById(graph, last.res).name = last.uris[Len(last.uris)]
    /\ last.again => (last.res = last.prev /\ last.created = 0)

\* the type tags that have a _create_<type>_node method
Builders ==
  {<<"assertion">>, <<"concept">>, <<"frame">>, <<"relation">>, <<"source">>,
   <<"web_concept">>}

\* the normalized uri has fewer than two segments, or a type tag with no
\* builder, or is a concept or frame whose remainder is not language/name
Unbuildable(uri) ==
  \/ count(uri, SL) < 2
  \/ split(uri, SL, 2)[2] \notin Builders
  \/ /\ split(uri, SL, 2)[2] \in {<<"concept">>, <<"frame">>}
     /\ Len(split(split(uri, SL, 2)[3], SL, -1)) # 2

\* C17 (SpecByType): get_or_create_node of a URI no node carries, whose
\* normalized form has fewer than two segments, or a type tag with no
\* builder, or a concept or frame remainder that is not language/name,
\* raises the validation error (ValueError) and creates no node.
C17_Validation ==
  (/\ last.op = "get_or_create_node"
   /\ Unbuildable(normalize_uri(last.uris[1]))) =>
    (last.err = "ValueError" /\ last.created = 0)

\* C18 (SpecByType): get_or_create_concept with a disambiguation returns a
\* concept node whose URI is /concept/<language>/<name>/<disambiguation>,
\* and the next call with the same arguments returns the same node.
C18_Disambiguated ==
  (last.op = "get_or_create_concept" /\ Len(last.uris) = 3) =>
    /\ last.err = ""
    /\ NodeById(graph, last.res).type = "concept"
    /\ NodeById(graph, last.res).uri =
         <<SL, "concept", SL>> \o last.uris[1] \o <<SL>> \o last.uris[2]
         \o <<SL>> \o last.uris[3]
    /\ last.again => last.res = last.prev

\* the conjunction nodes of g that node id points to and no other node does
OwnConjunctions(g, id) ==
  {c \in NodesOfType(g, {"conjunction"}) :
     /\ \E e \in incoming(g, c) : e.start = id
     /\ \A e \in incoming(g, c) : e.start = id}

\* C21 (SpecDelete): delete_node on a source node deletes the source, its
\* edges and exactly the conjunction nodes that the source points to and no
\* other node points to.
C21_SourceCascade ==
  [][(/\ last'.op = "delete_node"
      /\ last'.ntype = "source"
      /\ last'.node \in NodeIds(graph))
     => (/\ last'.err = ""
         /\ NodeIds(graph) \ NodeIds(graph')
              = {last'.node} \cup OwnConjunctions(graph, last'.node)
         /\ relationships(graph', last'.node) = {})]_vars

\* the justifies edges of g
Justifications(g) == {e \in g.edges : e.type = "justifies"}

\* C22 (SpecDerive): the store has at most one justifies edge for each
\* ordered pair of nodes; a justify call (derive_normalized makes one when
\* its weight is positive) on a pair that has none creates one with the
\* weight it was given, and on a pair that has one returns that edge and
\* leaves the justifies edges and their weights as they were.
C22_OneJustification ==
  /\ [](\A s, t \in NodeIds(graph) :
          Cardinality(Between(graph, "justifies", s, t)) <= 1)
  /\ [][(last'.op = "justify" \/ (last'.op = "derive_normalized" /\ last'.weight > 0))
        => IF Between(graph, "justifies", last'.node, last'.target) # {}
             THEN /\ Justifications(graph') = Justifications(graph)
                  /\ last'.op = "justify" =>
                       last'.res \in {e.id : e \in Between(graph, "justifies",
                                                           last'.node, last'.target)}
             ELSE /\ Cardinality(Justifications(graph') \ Justifications(graph)) = 1
                  /\ Justifications(graph) \subseteq Justifications(graph')
                  /\ \A e \in Justifications(graph') \ Justifications(graph) :
                       /\ e.start = last'.node
                       /\ e.end = last'.target
                       /\ e.props.weight = last'.weight
                       /\ last'.op = "justify" => last'.res = e.id]_vars

\* C22: justify was called with another weight on a pair that had a justifies
\* edge, returned that edge and created nothing.
C22_Rejustified ==
  /\ last.op = "justify"
  /\ last.err = ""
  /\ last.created = 0
  /\ \E e \in Between(graph, "justifies", last.node, last.target) :
       e.id = last.res /\ e.props.weight # last.weight

\* the pairs <<start, end>> of the normalized edges of g
NormalizedPairs(g) == {<<e.start, e.end>> : e \in {x \in g.edges : x.type = "normalized"}}

\* the pairs of different nodes at one position of the sequences [relation,
\* arg1, ...] of assertions s and t, up to the length of the shorter
ComponentPairs(g, s, t) ==
  {<<g.made[s][i], g.made[t][i]>> :
     i \in {j \in DOMAIN g.made[s] \cap DOMAIN g.made[t] : g.made[s][j] # g.made[t][j]}}

\* C25 (SpecDerive): derive_normalized with a positive weight on two
\* assertions with different numbers of arguments raises nothing, and the
\* normalized edges it adds are the one from s to t and one for each
\* position of the shorter sequence where the components differ.
C25_ShorterSequence ==
  [][(/\ last'.op = "derive_normalized"
      /\ last'.weight > 0
      /\ last' # last
      /\ Len(graph.made[last'.node]) # Len(graph.made[last'.target]))
     => (/\ last'.err = ""
         /\ NormalizedPairs(graph') =
              NormalizedPairs(graph) \cup {<<last'.node, last'.target>>}
              \cup ComponentPairs(graph, last'.node, last'.target))]_vars

\* C24 (SpecBulkSpaced): in the bulk-export graph a get_or_create_node call
\* for a URI whose normalized form was written fewer than 20 creations ago
\* finds it in the queue and writes no makeNode statement, so two calls
\* whose URIs normalize to one string write one statement.
C24_OneStatement ==
  [][(/\ bulk' # bulk
      /\ normalize_uri(bulk'.asked) \in Written(bulk)
      /\ SinceCreated(bulk, normalize_uri(bulk'.asked)) < Kept + 1)
     => (bulk'.found /\ bulk'.output = bulk.output)]_vars

\* C26 (SpecEdges): after any sequence of serialized get-or-create, justify,
\* derive_normalized and delete_node calls, the start and the end of every
\* edge of the store are nodes of the store.
C26_NoDanglingEdge ==
  \A e \in graph.edges : e.start \in NodeIds(graph) /\ e.end \in NodeIds(graph)

\* C26: delete_node removed a node that had edges, and the store still has
\* edges.
C26_DeletedWithEdges ==
  /\ last.op = "delete_node"
  /\ last.err = ""
  /\ last.node \notin NodeIds(graph)
  /\ \E e \in graph.edges : e.type \in {"justifies", "normalized"}
  /\ \E a \in NodesOfType(graph, {"assertion"}) :
       \E j \in DOMAIN graph.made[a] : graph.made[a][j] = last.node

\* C23 (SpecDeleteRace): a delete_node whose check of the incoming edges
\* passed deletes the node and its edges even when an assertion's relation
\* or arg edge to the node has been created since the check, and the
\* assertion stays in the store without that component.
C23_DeleteNotAtomic ==
  [][(/\ callers[2].pc = "checked"
      /\ callers[2].err = ""
      /\ callers'[2].pc = "done"
      /\ IsComponent(graph, callers[2].res))
     => (/\ callers'[2].err = ""
         /\ callers[2].res \notin NodeIds(graph')
         /\ relationships(graph', callers[2].res) = {}
         /\ \E a \in NodesOfType(graph', {"assertion"}) :
              \E j \in DOMAIN graph'.made[a] : graph'.made[a][j] = callers[2].res)]_vars

\* C23: get_or_create_assertion returned an assertion, delete_node returned,
\* and the argument of the assertion is not in the store.
C23_ComponentDeleted ==
  /\ callers[1].pc = "done"
  /\ callers[1].err = ""
  /\ callers[2].pc = "done"
  /\ callers[2].err = ""
  /\ callers[1].res \in NodesOfType(graph, {"assertion"})
  /\ graph.made[callers[1].res][2] = callers[2].res
  /\ callers[2].res \notin NodeIds(graph)
  /\ arg_edges(graph, callers[1].res) = {}

=============================================================================
